---- MODULE Spec2Model ----
(***************************************************************************)
(* The state-machine execution core of QL-Relax:                           *)
(*   BaseMachine/state_machine.py  (StateMachine.__init__, _create_states, *)
(*                                  StateMachine.process)                  *)
(*   BaseMachine/action_utils.py   (create_chat_action,                    *)
(*                                  call_sub_state_machine_action)         *)
(*   BaseMachine/llm_helpers.py    (reliable_parse)                        *)
(*   BaseMachine/code_filling/code_filling_config.py                       *)
(*                                 (initialize_system_prompt_action)       *)
(*                                                                         *)
(* A run is a stack of machine instances: the outermost machine and the    *)
(* child machines its sub-machine actions build and run to completion.     *)
(* Actions and transition functions are caller code: every invocation      *)
(* picks one of the outcomes such code can have (a result, an exception, a *)
(* delegation to a child machine; a name, a pair, a wrong shape).          *)
(***************************************************************************)
EXTENDS Integers, Sequences, FiniteSets, TLC

VARIABLES stack, outcome, args, log, steps, inv, iteration, pipeline

vars == <<stack, outcome, args, log, steps, inv, iteration, pipeline>>

---------------------------------------------------------------------------
(* Bounds *)

MaxSteps == 2
MaxDepth == 2
MaxResult == 2
MaxRetries == 3
MaxIterations == 2
MaxCwe == 2

---------------------------------------------------------------------------
(* Values *)

\* Python's None as an action result / return value of process()
None == 0
\* the local `result` before any action has been invoked
Unset == 0 - 1
Results == None..MaxResult

\* state names a caller may register; "Exit" is the reserved one
Names == {"A", "B", "Exit"}
\* a name no registry holds
Unknown == "Z"
AnyName == Names \cup {Unknown}
NoName == "-"
\* self.state = None
NoState == "None"

\* the registries a machine is built from: the full one, one without an
\* "Exit" entry, one without "B"
Registries == {{"A", "B", "Exit"}, {"A", "B"}, {"A", "Exit"}}

EmptyBag == {}
Bags == {EmptyBag, {"k"}}

SaveOptions == {"prompt", "result", "both", "none", "bogus"}

\* exceptions: class, whether str(e) contains "Claude AI usage limit reached",
\* where it was raised and at which nesting depth
NoExc == [cls |-> "none", limit |-> FALSE, src |-> "none", depth |-> 0]

Exc(c, l, s, d) == [cls |-> c, limit |-> l, src |-> s, depth |-> d]

\* what caller code (an action or a transition) may raise
UserExc(s, d) ==
    {Exc("RuntimeError", TRUE, s, d), Exc("RuntimeError", FALSE, s, d), Exc("Exception", TRUE, s, d)}

\* raise RuntimeError("Claude AI usage limit reached")
IsFatal(e) == e.cls = "RuntimeError" /\ e.limit

\* what a next_state_func may return
TransitionResults ==
    {[shape |-> "str", name |-> n, len |-> 0, bag |-> EmptyBag] : n \in AnyName}
    \cup {[shape |-> "tuple", name |-> n, len |-> 2, bag |-> b] : n \in AnyName, b \in Bags}
    \cup {[shape |-> "tuple", name |-> n, len |-> 1, bag |-> EmptyBag] : n \in AnyName}
    \cup {[shape |-> "tuple", name |-> NoName, len |-> 0, bag |-> EmptyBag]}
    \cup {[shape |-> "other", name |-> NoName, len |-> 0, bag |-> EmptyBag]}

NoOutcome == [kind |-> "none", value |-> None, exc |-> NoExc]
NoArgs == [called |-> FALSE, states |-> {}, initial |-> NoName]

---------------------------------------------------------------------------
(* Construction *)

\* _create_states: one state object per registry entry
CreateStates(state_definitions) == state_definitions

\* variant: an unknown initial state falls back to Exit, as the loop's lookup does
InitialStateOrExit(states, initial_state) ==
    IF initial_state \in states THEN initial_state ELSE "Exit"

\* self.states.get(initial_state, None)
InitialState(states, initial_state) ==
    IF initial_state \in states THEN initial_state ELSE NoState

\* the instance __init__ leaves behind when it does not raise
NewMachine(state_definitions, initial_state) ==
    [states |-> CreateStates(state_definitions),
     state |-> InitialState(CreateStates(state_definitions), initial_state),
     pc |-> "loop",
     previous_result |-> None,
     extra_args |-> EmptyBag,
     bag_from |-> 0,
     result |-> Unset,
     next_state_name |-> NoName,
     caught |-> NoExc,
     exc |-> NoExc,
     ret |-> None,
     save_option |-> "-",
     analysis_result |-> <<>>,
     messages |-> <<>>,
     context |-> <<>>,
     total_input_tokens |-> 0,
     total_output_tokens |-> 0,
     hist |-> <<>>]

\* variant: the message log starts empty whatever the context holds
NewMachineOnFresh(context_messages, state_definitions, initial_state) ==
    [NewMachine(state_definitions, initial_state) EXCEPT !.context = context_messages]

\* self.messages = getattr(self.context, 'messages', []) for a context that
\* carries context_messages; context keeps what the context held at that point
NewMachineOn(context_messages, state_definitions, initial_state) ==
    [NewMachine(state_definitions, initial_state) EXCEPT
        !.messages = context_messages,
        !.context = context_messages]

\* raise ValueError(f"Initial state '{initial_state}' is not defined ...")
InitError(d) == Exc("ValueError", FALSE, "init", d)

ConstructionRaises(state_definitions, initial_state) ==
    InitialState(CreateStates(state_definitions), initial_state) = NoState

---------------------------------------------------------------------------
(* The execution loop *)

Top == stack[Len(stack)]
Depth == Len(stack)

WithTop(f) == [stack EXCEPT ![Len(stack)] = f]

\* variant: only a missing state ends the loop; Exit is run like any state
IsExitOnlyNone(s) == s = NoState

\* isinstance(self.state, ExitState) or self.state is None
IsExit(s) == s = "Exit" \/ s = NoState

\* variant: the loop returns nothing at Exit
ExitReturnsNone(f) == None

\* return previous_result
ExitReturn(f) == f.previous_result

\* variant: an unknown name falls back to a registered state
LookupRegistered(states, next_state_name) ==
    IF next_state_name \in states \/ states = {} THEN next_state_name
    ELSE CHOOSE n \in states : n # "Exit" \/ states = {"Exit"}

\* variant: the named state is taken without a look-up
LookupUnchecked(states, next_state_name) == next_state_name

\* self.states.get(next_state_name, ExitState())
Lookup(states, next_state_name) ==
    IF next_state_name \in states THEN next_state_name ELSE "Exit"

\* variant: the usage-limit error is handled like every other RuntimeError
ReraisesNothing(e) == FALSE

\* the RuntimeError clause re-raises when the message names the usage limit
Reraises(e) == e.cls = "RuntimeError" /\ e.limit

\* variant: continue instead of break
AfterCatchContinues(f) == [f EXCEPT !.pc = "loop"]

\* variant: the except clause re-raises instead of breaking
AfterCatchRaises(f) == [f EXCEPT !.pc = "raised", !.exc = f.caught]

\* break, then the end of process(): the function returns None
AfterCatch(f) == [f EXCEPT !.pc = "returned", !.ret = None]

\* the two except clauses of process()
Handle(f, e) ==
    IF Reraises(e)
    THEN [f EXCEPT !.caught = e, !.pc = "raised", !.exc = e]
    ELSE AfterCatch([f EXCEPT !.caught = e])

\* logging.error calls of the except clauses
Logged(f, e) ==
    IF Reraises(e)
    THEN <<[level |-> "ERROR", msg |-> "usage limit", state |-> f.state]>>
    ELSE <<[level |-> "ERROR", msg |-> "error", state |-> f.state],
           [level |-> "ERROR", msg |-> "traceback", state |-> f.state]>>


\* what decoding next_state_info raises: next_state_info[0] of an empty tuple,
\* or the ValueError for a value that is neither a str nor a tuple
DecodeError(info, d) ==
    IF info.shape = "tuple" /\ info.len = 0 THEN Exc("IndexError", FALSE, "decode", d)
    ELSE IF info.shape = "other" THEN Exc("ValueError", FALSE, "shape", d)
    ELSE NoExc

\* the number of the step whose transition returned the bag info carries, 0
\* when info carries none
BagFrom(f, info) ==
    IF info.shape = "tuple" /\ info.len > 1 /\ info.bag # EmptyBag THEN Len(f.hist) ELSE 0

\* variant: the str branch leaves extra_args as it is
DecodedKeepsBag(f, info) ==
    [f EXCEPT !.next_state_name = info.name,
              !.extra_args = IF info.shape = "tuple"
                             THEN (IF info.len > 1 THEN info.bag ELSE EmptyBag)
                             ELSE f.extra_args,
              !.bag_from = BagFrom(f, info),
              !.state = Lookup(f.states, info.name),
              !.previous_result = f.result,
              !.pc = "loop"]

\* variant: self.state is not assigned; the same state runs again
DecodedStays(f, info) ==
    [f EXCEPT !.next_state_name = info.name,
              !.extra_args = IF info.shape = "tuple" /\ info.len > 1 THEN info.bag ELSE EmptyBag,
              !.bag_from = BagFrom(f, info),
              !.previous_result = f.result,
              !.pc = "loop"]

\* the tuple and str branches, then previous_result = result
Decoded(f, info) ==
    [f EXCEPT !.next_state_name = info.name,
              !.extra_args = IF info.shape = "tuple" /\ info.len > 1 THEN info.bag ELSE EmptyBag,
              !.bag_from = BagFrom(f, info),
              !.state = Lookup(f.states, info.name),
              !.previous_result = f.result,
              !.pc = "loop"]

\* variant: the composer wraps sub_machine.process() in try/except and goes on
\* with no result
ComposerSwallows(p, e) == [p EXCEPT !.result = None, !.pc = "transition"]

\* an exception of sub_machine.process() leaves sub_state_machine_action
\* uncaught and reaches the except clauses of the parent's process()
ComposerOnRaise(p, e) == Handle(p, e)

\* variant: the composer stores the pair whatever the policy
SaveRecordBoth(save_option, sub_result) == [shape |-> "pair", result |-> sub_result]

\* the save_option branches of sub_state_machine_action: the record appended
\* to machine.analysis_result is the child's context, its result, or a dict of
\* both
SaveRecord(save_option, sub_result) ==
    [shape |-> IF save_option = "prompt" THEN "context"
               ELSE IF save_option = "result" THEN "result" ELSE "pair",
     result |-> IF save_option = "prompt" THEN Unset ELSE sub_result]

\* variant: an unknown policy is stored under the default policy
SaveOptionAny(save_option) == TRUE

SaveOptionValid(save_option) == save_option \in {"prompt", "result", "both"}

SaveError(d) == Exc("ValueError", FALSE, "save", d)

\* variant: the parent's counters and messages are replaced by the child's
MergedOverwrites(p, c) ==
    [p EXCEPT !.total_input_tokens = c.total_input_tokens,
              !.total_output_tokens = c.total_output_tokens,
              !.messages = c.messages]

\* variant: the child's messages are put in front of the parent's
MergedChildFirst(p, c) ==
    [p EXCEPT !.total_input_tokens = p.total_input_tokens + c.total_input_tokens,
              !.total_output_tokens = p.total_output_tokens + c.total_output_tokens,
              !.messages = c.messages \o p.messages]

\* variant: the counters are assigned instead of added
MergedTakesChildCounters(p, c) ==
    [p EXCEPT !.total_input_tokens = c.total_input_tokens,
              !.total_output_tokens = c.total_output_tokens,
              !.messages = p.messages \o c.messages]

\* variant: the merge runs a second time
MergedTwice(p, c) ==
    [p EXCEPT !.total_input_tokens = p.total_input_tokens + 2 * c.total_input_tokens,
              !.total_output_tokens = p.total_output_tokens + 2 * c.total_output_tokens,
              !.messages = p.messages \o c.messages \o c.messages]

\* the merge of the child's account into the parent's
Merged(p, c) ==
    [p EXCEPT !.total_input_tokens = p.total_input_tokens + c.total_input_tokens,
              !.total_output_tokens = p.total_output_tokens + c.total_output_tokens,
              !.messages = p.messages \o c.messages]

---------------------------------------------------------------------------
(* Chat actions: create_chat_action *)

\* a message of machine.messages, with the nesting depth of the machine whose
\* action appended it and the number of the action invocation that did
Msg(role, d, t) == [role |-> role, by |-> d, at |-> t]

\* parsed_result of a response with content
Parsed == 1

\* how the call of reliable_parse ends for a chat action: no client of the
\* model name, an exception, None, a response whose content parses to value
ChatOutcomes(d) ==
    {[kind |-> "noclient", value |-> None, exc |-> Exc("ValueError", FALSE, "client", d)]}
    \cup {[kind |-> "raised", value |-> None, exc |-> e] : e \in UserExc("call", d)}
    \cup {[kind |-> "none", value |-> None, exc |-> Exc("AttributeError", FALSE, "sentinel", d)]}
    \cup {[kind |-> "response", value |-> Parsed, exc |-> NoExc]}

\* the save_option branches of chat_action
ChatSaveValid(save_option) == save_option \in {"prompt", "result", "both", "none"}

ChatRecord(save_option, parsed_result) ==
    [shape |-> IF save_option = "prompt" THEN "prompt"
               ELSE IF save_option = "result" THEN "result" ELSE "pair",
     result |-> IF save_option = "prompt" THEN Unset ELSE parsed_result]

\* machine.messages and machine.analysis_result when chat_action is left
AfterChat(f, o, save_option, d) ==
    IF o.kind # "response"
    THEN [f EXCEPT !.messages = Append(f.messages, Msg("user", d, steps + 1))]
    ELSE [f EXCEPT
            !.messages = f.messages \o <<Msg("user", d, steps + 1), Msg("assistant", d, steps + 1)>>,
            !.analysis_result =
                IF save_option \in {"prompt", "result", "both"}
                THEN Append(f.analysis_result, ChatRecord(save_option, o.value))
                ELSE f.analysis_result]

\* the exception chat_action is left with, NoExc when it returns parsed_result
ChatError(o, save_option, d) ==
    IF o.kind # "response" THEN o.exc
    ELSE IF ChatSaveValid(save_option) THEN NoExc
    ELSE Exc("ValueError", FALSE, "save", d)

---------------------------------------------------------------------------
(* The retrying invoker: reliable_parse *)

Providers == {"openrouter", "azure"}

\* what one client.beta.chat.completions.parse call gives back: a response
\* with content, one whose message content is empty, one without choices
Replies == {"content", "empty", "nochoices"}

\* reliable_parse not called; replies lists what each call gave ("raise" and
\* "fatal" for a call that raised), response is the number of the call whose
\* response is returned, 0 for None
InvIdle ==
    [pc |-> "idle", provider |-> "-", max_retries |-> 0, retries |-> 0, calls |-> 0,
     replies |-> <<>>, response |-> 0, exc |-> NoExc]

\* raise ValueError("OpenRouter API key not found in model_info")
ApiKeyError == Exc("ValueError", FALSE, "apikey", 0)

\* response.choices[0] of a response without choices
ChoicesError == Exc("IndexError", FALSE, "choices", 0)

\* variant: one attempt too many
CanRetryOnceMore(retries, max_retries) == retries <= max_retries

\* while retries < max_retries
CanRetry(retries, max_retries) == retries < max_retries

\* variant: any response is returned
HasContentAlways(reply) == TRUE

\* message.content is non-empty
HasContent(reply) == reply = "content"

\* variant: every provider's call is wrapped in try/except
CatchesCallErrorAlways(provider) == TRUE

\* only the OpenRouter loop wraps the call in try/except Exception
CatchesCallError(provider) == provider = "openrouter"

---------------------------------------------------------------------------
(* The iteration-control workflow: iteration_config.py *)

\* a query path: the file the pipeline handed in, the file
\* iteration_<n>/query_results/<name> of iteration n, or None
OriginalPath == [kind |-> "original", iteration |-> 0]
ModifiedPath(n) == [kind |-> "modified", iteration |-> n]
NoPath == [kind |-> "None", iteration |-> 0]

\* stop_reason = None
NoReason == "None"

\* last_validation = None
NoValidation ==
    [kind |-> "None", result_category |-> "", continue_iteration |-> FALSE, stop_reason |-> ""]

\* validation_conclusion = {} of a new ValidationContext; the fields are what
\* .get('result_category', ''), .get('continue_iteration', False) and
\* .get('stop_reason', '') give for it
EmptyConclusion ==
    [kind |-> "empty", result_category |-> "", continue_iteration |-> FALSE, stop_reason |-> ""]

Categories == {"compile_error", "success_increase", "result_decrease", "no_change"}

\* the conclusion save_validation_conclusion_action stores for a category
Conclusion(result_category) ==
    [kind |-> "conclusion",
     result_category |-> result_category,
     continue_iteration |-> result_category # "success_increase",
     stop_reason |-> IF result_category = "compile_error" THEN "Compilation errors need to be fixed"
                     ELSE IF result_category = "success_increase" THEN "Successfully increased result count"
                     ELSE IF result_category = "result_decrease" THEN "Result count decreased, need different approach"
                     ELSE "No change in results, continue iteration"]

\* validation_context.validation_conclusion after the validation machine ran
Conclusions == {EmptyConclusion} \cup {Conclusion(c) : c \in Categories}

\* the registry of the iteration-control machine
IterationStates ==
    {"CheckIterationLimit", "SaveOriginQuery", "ModifyQuery", "ExecuteQuery",
     "ValidateOutput", "UpdateIterationState", "GenerateFinalReport", "Exit"}

\* IterationContext.__init__ with no machine running on it
IterationIdle ==
    [pc |-> "idle", state |-> NoState, max_iterations |-> 0, current_iteration |-> 1,
     current_ql_path |-> OriginalPath, modified_ql_path |-> NoPath, sub_result |-> "None",
     last_validation |-> NoValidation, stop_reason |-> NoReason,
     iteration_history |-> <<>>, final_report |-> "None",
     previous_result |-> "None", ret |-> "None", caught |-> NoExc, executed |-> <<>>]

\* what an action of the workflow may raise besides the usage limit
IOError == Exc("OSError", FALSE, "action", 1)

\* how an action that does file work ends
IOOutcomes == {NoExc, IOError}

\* how an action that runs a sub-workflow ends (the composer lets only the
\* usage limit of the child through)
SubOutcomes == {NoExc, IOError, Exc("RuntimeError", TRUE, "action", 2)}

\* _create_states: the 'Exit' entry becomes ExitState(), whose action is
\* lambda machine: None whatever action the registry configured, and process()
\* returns at an ExitState without invoking any action
ExitActionRuns(configured) == FALSE

\* variant: the report is skipped when the iterations stop
IterationTransitionSkipsReport(state, result) ==
    IF state = "CheckIterationLimit"
    THEN IF result = "continue" THEN "SaveOriginQuery" ELSE "GenerateFinalReport"
    ELSE IF state = "SaveOriginQuery" THEN "ModifyQuery"
    ELSE IF state = "ModifyQuery" THEN "ExecuteQuery"
    ELSE IF state = "ExecuteQuery" THEN "ValidateOutput"
    ELSE IF state = "ValidateOutput" THEN "UpdateIterationState"
    ELSE IF state = "UpdateIterationState"
    THEN IF result = "continue" THEN "CheckIterationLimit" ELSE "Exit"
    ELSE "Exit"

\* the next_state_func of each entry of state_definitions
IterationTransition(state, result) ==
    IF state = "CheckIterationLimit"
    THEN IF result = "continue" THEN "SaveOriginQuery" ELSE "GenerateFinalReport"
    ELSE IF state = "SaveOriginQuery" THEN "ModifyQuery"
    ELSE IF state = "ModifyQuery" THEN "ExecuteQuery"
    ELSE IF state = "ExecuteQuery" THEN "ValidateOutput"
    ELSE IF state = "ValidateOutput" THEN "UpdateIterationState"
    ELSE IF state = "UpdateIterationState"
    THEN IF result = "continue" THEN "CheckIterationLimit" ELSE "GenerateFinalReport"
    ELSE "Exit"

\* process() after the action of c.state returned result on context c:
\* next_state_func, the look-up, previous_result = result
IterationAfter(c, result) ==
    [c EXCEPT !.previous_result = result,
              !.state = Lookup(IterationStates, IterationTransition(c.state, result)),
              !.executed = Append(c.executed, c.state)]

\* process() after the action of c.state raised e: re-raise the usage limit,
\* otherwise log, break and return None
IterationFails(c, e) ==
    IF Reraises(e)
    THEN [c EXCEPT !.pc = "raised", !.caught = e]
    ELSE [c EXCEPT !.pc = "returned", !.ret = "None", !.caught = e]

\* variant: one more iteration is let through
LimitReachedLate(current_iteration, max_iterations) == current_iteration > max_iterations + 1

\* if current_iteration > max_iterations
LimitReached(current_iteration, max_iterations) == current_iteration > max_iterations

\* variant: the validation's own reason is taken as it is
StopReasonAsGiven(v) == v.stop_reason

\* stop_reason or "Validation recommends stopping"
StopReason(v) ==
    IF v.stop_reason # "" THEN v.stop_reason ELSE "Validation recommends stopping"

---------------------------------------------------------------------------
(* The root pipeline: pipeline_config.py *)

\* the entries of a sequence
Range(seq) == {seq[i] : i \in DOMAIN seq}

\* CWE numbers; 0 stands for None (and is falsy like it)
Cwes == 1..MaxCwe

\* the registry of the root pipeline
PipelineStates ==
    {"GetCommonCWEs", "SelectNextCWE", "ProcessCWEQLFiles", "GenerateSummary", "Exit"}

\* the longest run the loop guard lets through: GetCommonCWEs, a selection and
\* a processing per CWE, the last selection, GenerateSummary
MaxPipelineSteps == 2 * MaxCwe + 3

\* variant: the keys are taken in descending order
RECURSIVE Descending(_)
Descending(S) ==
    IF S = {} THEN <<>>
    ELSE LET m == CHOOSE x \in S : \A y \in S : y <= x
         IN <<m>> \o Descending(S \ {m})

\* sorted(cwe_ql_mapping.keys())
RECURSIVE Sorted(_)
Sorted(S) ==
    IF S = {} THEN <<>>
    ELSE LET m == CHOOSE x \in S : \A y \in S : x <= y
         IN <<m>> \o Sorted(S \ {m})

\* QLWorkflowContext.__init__ with no machine running on it; matching is the
\* set of CWEs that have a QL file whose name contains specific_query,
\* selected lists the CWEs SelectNextCWE made current, in order
PipelineIdle ==
    [pc |-> "idle", state |-> NoState, process_all_cwes |-> FALSE, specific_cwe |-> 0,
     specific_query |-> FALSE, common_cwes |-> <<>>, matching |-> {},
     current_cwe |-> 0, processed_cwes |-> {}, workflow_results |-> {},
     previous_result |-> "None", ret |-> "None", caught |-> NoExc,
     selected |-> <<>>, executed |-> <<>>]

\* the next_state_func of each entry of state_definitions
PipelineTransition(state, result) ==
    IF state = "GetCommonCWEs" THEN "SelectNextCWE"
    ELSE IF state = "SelectNextCWE"
    THEN IF result # "all_processed" THEN "ProcessCWEQLFiles" ELSE "GenerateSummary"
    ELSE IF state = "ProcessCWEQLFiles" THEN "SelectNextCWE"
    ELSE "Exit"

\* process() after the action of c.state returned result on context c
PipelineAfter(c, result) ==
    [c EXCEPT !.previous_result = result,
              !.state = Lookup(PipelineStates, PipelineTransition(c.state, result)),
              !.executed = Append(c.executed, c.state)]

\* process() after the action of c.state raised e
PipelineFails(c, e) ==
    IF Reraises(e)
    THEN [c EXCEPT !.pc = "raised", !.caught = e]
    ELSE [c EXCEPT !.pc = "returned", !.ret = "None", !.caught = e]

\* the CWEs the for loop of the process-all branch passes over before it
\* returns: those processed already and, with a query filter, those without
\* a matching file
Skipped(c, cwe) ==
    cwe \in c.processed_cwes \/ (c.specific_query /\ cwe \notin c.matching)

\* select_next_cwe_action on context c: the context it leaves and its result
SelectNext(c) ==
    IF c.process_all_cwes
    THEN LET open == {k \in DOMAIN c.common_cwes : ~Skipped(c, c.common_cwes[k])}
         IN IF open = {}
            THEN [context |-> c, result |-> "all_processed"]
            ELSE LET k == CHOOSE i \in open : \A j \in open : i <= j
                     cwe == c.common_cwes[k]
                 IN [context |-> [c EXCEPT !.current_cwe = cwe,
                                           !.processed_cwes = c.processed_cwes \cup {cwe},
                                           !.selected = Append(c.selected, cwe)],
                     result |-> "Selected"]
    ELSE IF c.specific_cwe = 0
    THEN [context |-> c, result |-> "all_processed"]
    ELSE IF c.specific_cwe \notin Range(c.common_cwes)
    THEN [context |-> c, result |-> "not found in common CWEs"]
    ELSE IF c.specific_cwe \in c.workflow_results
    THEN [context |-> c, result |-> "all_processed"]
    ELSE [context |-> [c EXCEPT !.current_cwe = c.specific_cwe,
                               !.selected = Append(c.selected, c.specific_cwe)],
          result |-> IF c.specific_query /\ c.specific_cwe \notin c.matching
                     THEN "Error: Query not found" ELSE "Selected"]

---------------------------------------------------------------------------
(* Operations *)

Init ==
    /\ stack = <<>>
    /\ outcome = NoOutcome
    /\ args = NoArgs
    /\ log = <<>>
    /\ steps = 0
    /\ inv = InvIdle
    /\ iteration = IterationIdle
    /\ pipeline = PipelineIdle

\* StateMachine(context, state_definitions, initial_state) by the application
New(state_definitions, initial_state) ==
    /\ ~args.called
    /\ args' = [called |-> TRUE, states |-> state_definitions, initial |-> initial_state]
    /\ IF ConstructionRaises(state_definitions, initial_state)
       THEN /\ stack' = <<>>
            /\ outcome' = [kind |-> "raised", value |-> None, exc |-> InitError(1)]
       ELSE /\ stack' = <<NewMachine(state_definitions, initial_state)>>
            /\ outcome' = outcome
    /\ UNCHANGED <<log, steps, inv, iteration, pipeline>>

\* loop head: the current state is Exit (or None)
ExitStep ==
    /\ stack # <<>>
    /\ Top.pc = "loop"
    /\ IsExit(Top.state)
    /\ stack' = WithTop([Top EXCEPT !.pc = "returned", !.ret = ExitReturn(Top)])
    /\ UNCHANGED <<outcome, args, log, steps, inv, iteration, pipeline>>

\* the action of the current state returns r; takes_args is
\* len(action_func.__code__.co_varnames) > 1
ActionReturns(r, takes_args) ==
    /\ stack # <<>>
    /\ Top.pc = "loop"
    /\ ~IsExit(Top.state)
    /\ steps < MaxSteps
    /\ steps' = steps + 1
    /\ stack' = WithTop([Top EXCEPT
            !.result = r,
            !.extra_args = IF takes_args THEN EmptyBag ELSE Top.extra_args,
            !.bag_from = IF takes_args THEN 0 ELSE Top.bag_from,
            !.hist = Append(Top.hist, [state |-> Top.state, result |-> r]),
            !.pc = "transition"])
    /\ UNCHANGED <<outcome, args, log, inv, iteration, pipeline>>

\* TypeError: action_func() got an unexpected keyword argument
DispatchError(d) == Exc("TypeError", FALSE, "dispatch", d)

\* the action of the current state declares only `machine` but has local
\* variables: co_varnames lists them too, so len(args_spec) > 1 and the action
\* is called with the pending bag as keyword arguments
ActionMiscalled ==
    /\ stack # <<>>
    /\ Top.pc = "loop"
    /\ ~IsExit(Top.state)
    /\ Top.extra_args # EmptyBag
    /\ steps < MaxSteps
    /\ steps' = steps + 1
    /\ stack' = WithTop(Handle(Top, DispatchError(Depth)))
    /\ log' = log \o Logged(Top, DispatchError(Depth))
    /\ UNCHANGED <<outcome, args, inv, iteration, pipeline>>

\* the action of the current state raises e
ActionRaises(e) ==
    /\ stack # <<>>
    /\ Top.pc = "loop"
    /\ ~IsExit(Top.state)
    /\ steps < MaxSteps
    /\ steps' = steps + 1
    /\ stack' = WithTop(Handle(Top, e))
    /\ log' = log \o Logged(Top, e)
    /\ UNCHANGED <<outcome, args, inv, iteration, pipeline>>

\* the action of the current state is a chat_action
ChatAction(o, save_option) ==
    /\ stack # <<>>
    /\ Top.pc = "loop"
    /\ ~IsExit(Top.state)
    /\ steps < MaxSteps
    /\ steps' = steps + 1
    /\ LET f == AfterChat(Top, o, save_option, Depth)
           e == ChatError(o, save_option, Depth)
       IN IF e = NoExc
          THEN /\ stack' = WithTop([f EXCEPT
                        !.result = o.value,
                        !.extra_args = EmptyBag,
                        !.bag_from = 0,
                        !.hist = Append(f.hist, [state |-> f.state, result |-> o.value]),
                        !.pc = "transition"])
               /\ log' = log
          ELSE /\ stack' = WithTop(Handle(f, e))
               /\ log' = log \o Logged(f, e)
    /\ UNCHANGED <<outcome, args, inv, iteration, pipeline>>

\* the action is a sub_state_machine_action: it builds the child machine on
\* sub_context_cls(**kwargs), a context that carries context_messages, and
\* calls its process()
SubCallOn(context_messages, sub_state_definitions, sub_initial_state) ==
    /\ stack # <<>>
    /\ Top.pc = "loop"
    /\ ~IsExit(Top.state)
    /\ steps < MaxSteps
    /\ Depth < MaxDepth
    /\ steps' = steps + 1
    /\ IF ConstructionRaises(sub_state_definitions, sub_initial_state)
       THEN /\ stack' = WithTop(Handle(Top, InitError(Depth + 1)))
            /\ log' = log \o Logged(Top, InitError(Depth + 1))
       ELSE /\ stack' = Append(WithTop([Top EXCEPT !.pc = "sub"]),
                               NewMachineOn(context_messages, sub_state_definitions,
                                            sub_initial_state))
            /\ log' = log
    /\ UNCHANGED <<outcome, args, inv, iteration, pipeline>>

\* the sub-machine call on a context with no messages, as the context classes
\* of the workflows are (self.messages = [])
SubCall(sub_state_definitions, sub_initial_state) ==
    SubCallOn(<<>>, sub_state_definitions, sub_initial_state)

\* the action of the current state is initialize_system_prompt_action: it
\* binds machine.messages to a new one-entry list and returns None; its
\* co_varnames are (machine, symbol), so it is called with the (empty) bag
InitializeSystemPrompt ==
    /\ stack # <<>>
    /\ Top.pc = "loop"
    /\ ~IsExit(Top.state)
    /\ Top.extra_args = EmptyBag
    /\ steps < MaxSteps
    /\ steps' = steps + 1
    /\ stack' = WithTop([Top EXCEPT
            !.messages = <<Msg("system", Depth, steps + 1)>>,
            !.result = None,
            !.extra_args = EmptyBag,
            !.bag_from = 0,
            !.hist = Append(Top.hist, [state |-> Top.state, result |-> None]),
            !.pc = "transition"])
    /\ UNCHANGED <<outcome, args, log, inv, iteration, pipeline>>

\* the child's process() returned: merge, save, return sub_result; save_option
\* is the composer's parameter, read here for the first time
SubReturn(save_option) ==
    /\ Len(stack) >= 2
    /\ Top.pc = "returned"
    /\ LET c == Top
           p == Merged(stack[Len(stack) - 1], c)
           rest == SubSeq(stack, 1, Len(stack) - 2)
       IN IF SaveOptionValid(save_option)
          THEN /\ stack' = Append(rest, [p EXCEPT
                        !.save_option = save_option,
                        !.analysis_result = Append(p.analysis_result, SaveRecord(save_option, c.ret)),
                        !.result = c.ret,
                        !.extra_args = EmptyBag,
                        !.bag_from = 0,
                        !.hist = Append(p.hist, [state |-> p.state, result |-> c.ret]),
                        !.pc = "transition"])
               /\ log' = log
          ELSE /\ stack' = Append(rest, Handle([p EXCEPT !.save_option = save_option],
                                                SaveError(Len(stack) - 1)))
               /\ log' = log \o Logged(p, SaveError(Len(stack) - 1))
    /\ UNCHANGED <<outcome, args, steps, inv, iteration, pipeline>>

\* the child's process() raised
SubRaise ==
    /\ Len(stack) >= 2
    /\ Top.pc = "raised"
    /\ LET c == Top
           p == stack[Len(stack) - 1]
           rest == SubSeq(stack, 1, Len(stack) - 2)
       IN /\ stack' = Append(rest, ComposerOnRaise(p, c.exc))
          /\ log' = log \o Logged(p, c.exc)
    /\ UNCHANGED <<outcome, args, steps, inv, iteration, pipeline>>

\* next_state_func returns info, which is decoded
TransitionReturns(info) ==
    /\ stack # <<>>
    /\ Top.pc = "transition"
    /\ IF DecodeError(info, Depth) = NoExc
       THEN /\ stack' = WithTop(Decoded(Top, info))
            /\ log' = log
       ELSE /\ stack' = WithTop(Handle(Top, DecodeError(info, Depth)))
            /\ log' = log \o Logged(Top, DecodeError(info, Depth))
    /\ UNCHANGED <<outcome, args, steps, inv, iteration, pipeline>>

\* next_state_func raises e (a registry entry without next_state_func: TypeError)
TransitionRaises(e) ==
    /\ stack # <<>>
    /\ Top.pc = "transition"
    /\ stack' = WithTop(Handle(Top, e))
    /\ log' = log \o Logged(Top, e)
    /\ UNCHANGED <<outcome, args, steps, inv, iteration, pipeline>>

\* the outermost process() hands its result, or its exception, to the caller
Finish ==
    /\ Len(stack) = 1
    /\ Top.pc \in {"returned", "raised"}
    /\ outcome' = IF Top.pc = "returned"
                  THEN [kind |-> "returned", value |-> Top.ret, exc |-> NoExc]
                  ELSE [kind |-> "raised", value |-> None, exc |-> Top.exc]
    /\ stack' = <<>>
    /\ UNCHANGED <<args, log, steps, inv, iteration, pipeline>>

\* reliable_parse(client, request_params, max_retries, model_info=...)
InvStart(provider, max_retries, has_key) ==
    /\ inv.pc = "idle"
    /\ inv' = IF provider = "openrouter" /\ ~has_key
              THEN [InvIdle EXCEPT !.pc = "raised", !.provider = provider,
                                   !.max_retries = max_retries, !.exc = ApiKeyError]
              ELSE [InvIdle EXCEPT !.pc = "loop", !.provider = provider,
                                   !.max_retries = max_retries]
    /\ UNCHANGED <<stack, outcome, args, log, steps, iteration, pipeline>>

\* one turn of the while loop in which the call returns a response
InvReply(reply) ==
    /\ inv.pc = "loop"
    /\ CanRetry(inv.retries, inv.max_retries)
    /\ LET i == [inv EXCEPT !.calls = inv.calls + 1, !.replies = Append(inv.replies, reply)]
       IN inv' = IF reply = "nochoices"
                 THEN IF inv.provider = "openrouter"
                      THEN [i EXCEPT !.retries = inv.retries + 1]
                      ELSE [i EXCEPT !.pc = "raised", !.exc = ChoicesError]
                 ELSE IF HasContent(reply)
                      THEN [i EXCEPT !.pc = "returned", !.response = i.calls]
                      ELSE [i EXCEPT !.retries = inv.retries + 1]
    /\ UNCHANGED <<stack, outcome, args, log, steps, iteration, pipeline>>

\* one turn of the while loop in which the call raises e
InvCallRaises(e) ==
    /\ inv.pc = "loop"
    /\ CanRetry(inv.retries, inv.max_retries)
    /\ LET i == [inv EXCEPT !.calls = inv.calls + 1, !.replies = Append(inv.replies, IF IsFatal(e) THEN "fatal" ELSE "raise")]
       IN inv' = IF CatchesCallError(inv.provider)
                 THEN [i EXCEPT !.retries = inv.retries + 1]
                 ELSE [i EXCEPT !.pc = "raised", !.exc = e]
    /\ UNCHANGED <<stack, outcome, args, log, steps, iteration, pipeline>>

\* the loop ends: return None
InvGiveUp ==
    /\ inv.pc = "loop"
    /\ ~CanRetry(inv.retries, inv.max_retries)
    /\ inv' = [inv EXCEPT !.pc = "returned", !.response = 0]
    /\ UNCHANGED <<stack, outcome, args, log, steps, iteration, pipeline>>

InvNext ==
    \/ \E p \in Providers, n \in 0..MaxRetries, k \in BOOLEAN : InvStart(p, n, k)
    \/ \E r \in Replies : InvReply(r)
    \/ \E e \in UserExc("call", 0) : InvCallRaises(e)
    \/ InvGiveUp

SpecInvoker == Init /\ [][InvNext]_vars

Next ==
    \/ \E sd \in Registries, i \in AnyName : New(sd, i)
    \/ ExitStep
    \/ \E r \in Results, t \in BOOLEAN : ActionReturns(r, t)
    \/ \E e \in UserExc("action", Depth) : ActionRaises(e)
    \/ ActionMiscalled
    \/ \E sd \in Registries, i \in AnyName : SubCall(sd, i)
    \/ \E so \in SaveOptions : SubReturn(so)
    \/ SubRaise
    \/ \E info \in TransitionResults : TransitionReturns(info)
    \/ \E e \in UserExc("transition", Depth) : TransitionRaises(e)
    \/ Finish

Spec == Init /\ [][Next]_vars


\* machines whose actions are chat actions and sub-machine calls
ChatNext ==
    \/ \E sd \in Registries, i \in AnyName : New(sd, i)
    \/ ExitStep
    \/ \E o \in ChatOutcomes(Depth), so \in SaveOptions : ChatAction(o, so)
    \/ InitializeSystemPrompt
    \/ \E sd \in Registries, i \in AnyName : SubCall(sd, i)
    \/ \E so \in SaveOptions : SubReturn(so)
    \/ SubRaise
    \/ \E info \in TransitionResults : TransitionReturns(info)
    \/ Finish

SpecChat == Init /\ [][ChatNext]_vars

\* the merge on its own: a parent whose sub-machine action is waiting for a
\* child whose process() has just returned, with the accounts the two machines
\* hold at that point
ParentTokens == {0, 2, 3}
ChildTokens == {0, 5, 7}
ParentLogs == {<<>>, <<Msg("user", 1, 1)>>}
ChildLogs == {<<>>, <<Msg("user", 2, 3)>>, <<Msg("user", 2, 3), Msg("assistant", 2, 3)>>}
ChildResultLogs == {<<>>, <<ChatRecord("both", Parsed)>>}

WaitingParent(tin, tout, msgs) ==
    [NewMachine({"A", "B", "Exit"}, "A") EXCEPT
        !.pc = "sub",
        !.total_input_tokens = tin,
        !.total_output_tokens = tout,
        !.messages = msgs]

ReturnedChild(r, tin, tout, msgs, results) ==
    [NewMachine({"A", "B", "Exit"}, "A") EXCEPT
        !.pc = "returned",
        !.state = "Exit",
        !.next_state_name = "Exit",
        !.result = r,
        !.previous_result = r,
        !.ret = r,
        !.hist = <<[state |-> "A", result |-> r]>>,
        !.total_input_tokens = tin,
        !.total_output_tokens = tout,
        !.messages = msgs,
        !.analysis_result = results]

MergeInit ==
    /\ \E pi \in ParentTokens, po \in ParentTokens, pm \in ParentLogs,
          r \in Results, ci \in ChildTokens, co \in ChildTokens, cm \in ChildLogs,
          cr \in ChildResultLogs :
            stack = <<WaitingParent(pi, po, pm), ReturnedChild(r, ci, co, cm, cr)>>
    /\ outcome = NoOutcome
    /\ args = [called |-> TRUE, states |-> {"A", "B", "Exit"}, initial |-> "A"]
    /\ log = <<>>
    /\ steps = 3
    /\ inv = InvIdle
    /\ iteration = IterationIdle
    /\ pipeline = PipelineIdle

MergeNext == \E so \in SaveOptions : SubReturn(so)

SpecMerge == MergeInit /\ [][MergeNext]_vars

\* a run seen from a point where the machines on the stack have each run one
\* chat action and, but for the innermost, a sub-machine action that waits for
\* the machine above it

\* what getattr(context, 'messages', []) may hold: nothing, or a message put
\* there by the code that built the context
ContextLogs == {<<>>, <<Msg("user", 0, 0)>>}

\* a machine after one step: its chat action (save_option 'result') got a
\* response and its transition named "A" again
Chatted(d) ==
    [NewMachine({"A", "B", "Exit"}, "A") EXCEPT
        !.messages = <<Msg("user", d, 0), Msg("assistant", d, 0)>>,
        !.analysis_result = <<ChatRecord("result", Parsed)>>,
        !.result = Parsed,
        !.previous_result = Parsed,
        !.next_state_name = "A",
        !.hist = <<[state |-> "A", result |-> Parsed]>>,
        !.total_input_tokens = 2,
        !.total_output_tokens = 3]

\* the same machine inside its sub_state_machine_action
Delegating(d) == [Chatted(d) EXCEPT !.pc = "sub"]

LogStacks ==
    {<<Chatted(1)>>,
     <<Delegating(1), NewMachine({"A", "B", "Exit"}, "A")>>,
     <<Delegating(1), Delegating(2), NewMachine({"A", "B", "Exit"}, "A")>>}

LogInit ==
    /\ stack \in LogStacks
    /\ outcome = NoOutcome
    /\ args = [called |-> TRUE, states |-> {"A", "B", "Exit"}, initial |-> "A"]
    /\ log = <<>>
    /\ steps = 0
    /\ inv = InvIdle
    /\ iteration = IterationIdle
    /\ pipeline = PipelineIdle

\* the inputs of these runs: children over the full registry, the save
\* policies that store the result or nothing, transitions that return a name
LogSaveOptions == {"result", "none"}
LogTransitions == {info \in TransitionResults : info.shape = "str"}

LogNext ==
    \/ ExitStep
    \/ \E o \in ChatOutcomes(Depth), so \in LogSaveOptions : ChatAction(o, so)
    \/ InitializeSystemPrompt
    \/ \E cm \in ContextLogs : SubCallOn(cm, {"A", "B", "Exit"}, "A")
    \/ \E so \in LogSaveOptions : SubReturn(so)
    \/ SubRaise
    \/ \E info \in LogTransitions : TransitionReturns(info)
    \/ \E e \in UserExc("transition", Depth) : TransitionRaises(e)
    \/ Finish

SpecLog == LogInit /\ [][LogNext]_vars

\* runs to completion: machines started at "A" whose transitions return a
\* name and whose children run the full registry
LiveNext ==
    \/ \E sd \in Registries : New(sd, "A")
    \/ ExitStep
    \/ \E r \in Results : ActionReturns(r, TRUE)
    \/ \E e \in UserExc("action", Depth) : ActionRaises(e)
    \/ SubCall({"A", "B", "Exit"}, "A")
    \/ SubReturn("result")
    \/ SubRaise
    \/ \E info \in LogTransitions : TransitionReturns(info)
    \/ \E e \in UserExc("transition", Depth) : TransitionRaises(e)
    \/ Finish

\* process() is one synchronous loop on one thread: whenever a step can be
\* taken, one is taken
SpecLive == Init /\ [][LiveNext]_vars /\ WF_vars(LiveNext)

---------------------------------------------------------------------------
(* Operations of the iteration-control workflow *)

IterationRuns(state) == iteration.pc = "loop" /\ iteration.state = state

IterationUnchanged == UNCHANGED <<stack, outcome, args, log, steps, inv, pipeline>>

\* process_cwe_ql_files_action: a new IterationContext and a machine started
\* at CheckIterationLimit
IterationStart(max_iterations) ==
    /\ iteration.pc = "idle"
    /\ iteration' = [IterationIdle EXCEPT !.pc = "loop", !.state = "CheckIterationLimit",
                                          !.max_iterations = max_iterations]
    /\ IterationUnchanged

\* check_iteration_limit_action
CheckIterationLimit(e) ==
    /\ IterationRuns("CheckIterationLimit")
    /\ iteration' =
         IF e # NoExc THEN IterationFails(iteration, e)
         ELSE IF LimitReached(iteration.current_iteration, iteration.max_iterations)
         THEN IterationAfter([iteration EXCEPT !.stop_reason = "Reached maximum iterations"],
                             "max_reached")
         ELSE IterationAfter(iteration, "continue")
    /\ IterationUnchanged

\* save_origin_query_action: the results of the previous iteration may be
\* missing (FileNotFoundError), the file work of the first may fail
SaveOriginQuery(e) ==
    /\ IterationRuns("SaveOriginQuery")
    /\ iteration' = IF e # NoExc THEN IterationFails(iteration, e)
                    ELSE IterationAfter(iteration, "origin")
    /\ IterationUnchanged

\* run_modify_query_action: the modification machine (ModifyQLQuery -> Exit)
\* runs on a new ModificationContext; child_ok is FALSE when its action was
\* stopped by a non-fatal exception
ModifyQuery(e, child_ok) ==
    /\ IterationRuns("ModifyQuery")
    /\ iteration' =
         IF e # NoExc THEN IterationFails(iteration, e)
         ELSE LET modified_ql_path ==
                      IF child_ok /\ ExitActionRuns("exit_action")
                      THEN ModifiedPath(iteration.current_iteration) ELSE NoPath
                  sub_result == IF ~child_ok THEN "None"
                                ELSE IF ExitActionRuns("exit_action") THEN "output_path"
                                ELSE "modify_ql_query_action"
              IN IterationAfter([iteration EXCEPT
                      !.modified_ql_path = modified_ql_path,
                      !.sub_result = sub_result,
                      !.current_ql_path = IF modified_ql_path # NoPath THEN modified_ql_path
                                          ELSE iteration.current_ql_path],
                    "Query modified")
    /\ IterationUnchanged

\* run_execute_query_action
ExecuteQuery(e) ==
    /\ IterationRuns("ExecuteQuery")
    /\ iteration' = IF e # NoExc THEN IterationFails(iteration, e)
                    ELSE IterationAfter(iteration, "Query executed")
    /\ IterationUnchanged

\* run_validate_output_action: last_validation is what the validation machine
\* left in its context
ValidateOutput(e, validation_conclusion) ==
    /\ IterationRuns("ValidateOutput")
    /\ iteration' = IF e # NoExc THEN IterationFails(iteration, e)
                    ELSE IterationAfter([iteration EXCEPT !.last_validation = validation_conclusion],
                                        "Validation completed")
    /\ IterationUnchanged

\* update_iteration_state_action
UpdateIterationState ==
    /\ IterationRuns("UpdateIterationState")
    /\ LET v == iteration.last_validation
           c == [iteration EXCEPT !.iteration_history =
                    Append(iteration.iteration_history,
                           [iteration |-> iteration.current_iteration,
                            ql_path |-> iteration.current_ql_path,
                            validation |-> v])]
       IN iteration' =
            IF v = NoValidation
            THEN IterationAfter([c EXCEPT !.stop_reason = "Validation failed"], "stop")
            ELSE IF v.result_category = "success_increase"
            THEN IterationAfter([c EXCEPT !.stop_reason = "Result count successfully increased"], "stop")
            ELSE IF ~v.continue_iteration
            THEN IterationAfter([c EXCEPT !.stop_reason = StopReason(v)], "stop")
            ELSE IterationAfter([c EXCEPT !.current_iteration = c.current_iteration + 1], "continue")
    /\ IterationUnchanged

\* generate_final_report_action: final_report is assigned after the report
\* file has been written
GenerateFinalReport(e) ==
    /\ IterationRuns("GenerateFinalReport")
    /\ iteration' = IF e # NoExc THEN IterationFails(iteration, e)
                    ELSE IterationAfter([iteration EXCEPT !.final_report = "report"],
                                        "Report generated")
    /\ IterationUnchanged

\* process() at the ExitState: return previous_result
IterationExit ==
    /\ IterationRuns("Exit")
    /\ iteration' = [iteration EXCEPT
            !.pc = "returned",
            !.ret = IF ExitActionRuns("exit_action") THEN "final_report"
                    ELSE iteration.previous_result]
    /\ IterationUnchanged

IterationNext ==
    \/ \E n \in 0..MaxIterations : IterationStart(n)
    \/ \E e \in IOOutcomes : CheckIterationLimit(e)
    \/ \E e \in IOOutcomes : SaveOriginQuery(e)
    \/ \E e \in SubOutcomes, child_ok \in BOOLEAN : ModifyQuery(e, child_ok)
    \/ \E e \in SubOutcomes : ExecuteQuery(e)
    \/ \E e \in SubOutcomes, v \in Conclusions : ValidateOutput(e, v)
    \/ UpdateIterationState
    \/ \E e \in IOOutcomes : GenerateFinalReport(e)
    \/ IterationExit

SpecIteration == Init /\ [][IterationNext]_vars

---------------------------------------------------------------------------
(* Operations of the root pipeline *)

PipelineRuns(state) ==
    /\ pipeline.pc = "loop"
    /\ pipeline.state = state
    /\ Len(pipeline.executed) < MaxPipelineSteps

PipelineUnchanged == UNCHANGED <<stack, outcome, args, log, steps, inv, iteration>>

\* run_ql_workflow: a QLWorkflowContext from the command line and a machine
\* started at GetCommonCWEs
PipelineStart(process_all_cwes, specific_cwe, specific_query) ==
    /\ pipeline.pc = "idle"
    /\ pipeline' = [PipelineIdle EXCEPT !.pc = "loop", !.state = "GetCommonCWEs",
                                        !.process_all_cwes = process_all_cwes,
                                        !.specific_cwe = specific_cwe,
                                        !.specific_query = specific_query]
    /\ PipelineUnchanged

\* get_common_cwes_action: the listing gives a mapping with these keys, or
\* fails, which the action reports in its result only
GetCommonCWEs(ok, keys, matching) ==
    /\ PipelineRuns("GetCommonCWEs")
    /\ matching \subseteq keys
    /\ pipeline.specific_query \/ matching = keys
    /\ pipeline' =
         IF ok
         THEN PipelineAfter([pipeline EXCEPT !.common_cwes = Sorted(keys),
                                             !.matching = matching], "Found")
         ELSE PipelineAfter(pipeline, "Failed to get common CWEs")
    /\ PipelineUnchanged

\* select_next_cwe_action
SelectNextCWE ==
    /\ PipelineRuns("SelectNextCWE")
    /\ pipeline' = PipelineAfter(SelectNext(pipeline).context, SelectNext(pipeline).result)
    /\ PipelineUnchanged

\* process_cwe_ql_files_action: the iteration workflow runs for each file of
\* current_cwe, then workflow_results[current_cwe] is stored
ProcessCWEQLFiles(e) ==
    /\ PipelineRuns("ProcessCWEQLFiles")
    /\ pipeline' =
         IF e # NoExc THEN PipelineFails(pipeline, e)
         ELSE PipelineAfter([pipeline EXCEPT !.workflow_results =
                                 pipeline.workflow_results \cup {pipeline.current_cwe}],
                            "Processed")
    /\ PipelineUnchanged

\* generate_summary_report_action
GenerateSummary(e) ==
    /\ PipelineRuns("GenerateSummary")
    /\ pipeline' =
         IF pipeline.workflow_results = {} THEN PipelineAfter(pipeline, "No results")
         ELSE IF e # NoExc THEN PipelineFails(pipeline, e)
         ELSE PipelineAfter(pipeline, "Summary generated")
    /\ PipelineUnchanged

\* process() at the ExitState: return previous_result
PipelineExit ==
    /\ pipeline.pc = "loop"
    /\ pipeline.state = "Exit"
    /\ pipeline' = [pipeline EXCEPT !.pc = "returned", !.ret = pipeline.previous_result]
    /\ PipelineUnchanged

PipelineNext ==
    \/ \E a \in BOOLEAN, cwe \in 0..MaxCwe, q \in BOOLEAN : PipelineStart(a, cwe, q)
    \/ \E ok \in BOOLEAN, keys \in SUBSET Cwes, m \in SUBSET Cwes : GetCommonCWEs(ok, keys, m)
    \/ SelectNextCWE
    \/ \E e \in SubOutcomes : ProcessCWEQLFiles(e)
    \/ \E e \in IOOutcomes : GenerateSummary(e)
    \/ PipelineExit

SpecPipeline == Init /\ [][PipelineNext]_vars

\* runs in which no action raises
PipelineLiveNext ==
    \/ \E a \in BOOLEAN, cwe \in 0..MaxCwe, q \in BOOLEAN : PipelineStart(a, cwe, q)
    \/ \E ok \in BOOLEAN, keys \in SUBSET Cwes, m \in SUBSET Cwes : GetCommonCWEs(ok, keys, m)
    \/ SelectNextCWE
    \/ ProcessCWEQLFiles(NoExc)
    \/ GenerateSummary(NoExc)
    \/ PipelineExit

\* process() is one synchronous loop on one thread: whenever a step can be
\* taken, one is taken
SpecPipelineLive == Init /\ [][PipelineLiveNext]_vars /\ WF_vars(PipelineLiveNext)

---------------------------------------------------------------------------
(* Properties *)

Frames == {stack[i] : i \in 1..Len(stack)}

\* the exception was raised by caller code run as an action or a transition
\* (the sub-machine composer is such an action)
RaisedByStep(e) == e.src \in {"action", "transition", "init", "save"}

\* C1: when process() reaches Exit without any error it returns the result of
\* the last action executed, None when no action was executed; with the
\* registry A, B, Exit started at A, A returning 1 and B returning 2, it
\* returns 2.
ReturnsLastResult ==
    \A f \in Frames :
        (f.pc = "returned" /\ f.caught = NoExc) =>
            /\ f.ret = (IF f.result = Unset THEN None ELSE f.result)
            /\ (f.hist = <<>> => f.ret = None)
            /\ (/\ f.states = {"A", "B", "Exit"}
                /\ f.hist = <<[state |-> "A", result |-> 1], [state |-> "B", result |-> 2]>>
                => f.ret = 2)

ReturnsLastResultWitness ==
    /\ Len(stack) = 1
    /\ args.initial = "A"
    /\ Top.states = {"A", "B", "Exit"}
    /\ Top.pc = "returned"
    /\ Top.caught = NoExc
    /\ Top.next_state_name = "Exit"
    /\ Top.hist = <<[state |-> "A", result |-> 1], [state |-> "B", result |-> 2]>>
    /\ Top.ret = 2

\* C2: when an action or a transition raises an exception other than the
\* usage-limit error, process() returns the result of the last step that
\* completed before the failure.
ReturnsLastGoodResult ==
    \A f \in Frames :
        (f.pc = "returned" /\ f.caught # NoExc /\ ~IsFatal(f.caught) /\ RaisedByStep(f.caught))
            => f.ret = f.previous_result

\* C3: every exception other than the usage-limit error raised by an action or
\* a transition is caught: the loop stops, process() returns normally, never
\* raises such an exception and runs no further state.
OrdinaryErrorsAreCaught ==
    /\ \A f \in Frames :
          /\ (f.caught # NoExc /\ ~IsFatal(f.caught) /\ RaisedByStep(f.caught))
                => (f.pc = "returned" /\ f.exc = NoExc)
          /\ (f.pc = "raised" => IsFatal(f.exc))
    /\ (outcome.kind = "raised" => (IsFatal(outcome.exc) \/ outcome.exc = InitError(1)))

OrdinaryErrorsAreCaughtWitness ==
    /\ Len(stack) = 1
    /\ Top.pc = "returned"
    /\ Top.caught = Exc("Exception", TRUE, "transition", 1)
    /\ Len(Top.hist) = 2

\* C4: a usage-limit error raised inside a state's action leaves process() as
\* that same exception: no partial result is returned and no further state runs.
FatalLeavesProcess ==
    \A i \in 1..Len(stack) :
        (IsFatal(stack[i].caught) /\ stack[i].caught.depth = i) =>
            /\ i = Len(stack)
            /\ stack[i].pc = "raised"
            /\ stack[i].exc = stack[i].caught
            /\ stack[i].ret = None

FatalLeavesProcessWitness ==
    /\ Len(stack) = 1
    /\ Top.pc = "raised"
    /\ Top.exc = Exc("RuntimeError", TRUE, "action", 1)
    /\ Top.previous_result = 1
    /\ Len(Top.hist) = 1

\* C5: a usage-limit error raised in a child machine passes through every
\* child process(), composer call and ancestor action and out of the outermost
\* process(): each step unwinds one machine, and no ancestor invokes its
\* transition or a further state.
FatalUnwinds ==
    [][(stack # <<>> /\ Top.pc = "raised") =>
         IF Len(stack) = 1
         THEN /\ stack' = <<>>
              /\ outcome' = [kind |-> "raised", value |-> None, exc |-> Top.exc]
         ELSE /\ Len(stack') = Len(stack) - 1
              /\ SubSeq(stack', 1, Len(stack) - 2) = SubSeq(stack, 1, Len(stack) - 2)
              /\ stack'[Len(stack) - 1] =
                    [stack[Len(stack) - 1] EXCEPT !.pc = "raised", !.exc = Top.exc, !.caught = Top.exc]
              /\ steps' = steps
              /\ outcome' = outcome]_vars

FatalUnwindsWitness ==
    /\ stack = <<>>
    /\ outcome.kind = "raised"
    /\ outcome.exc = Exc("RuntimeError", TRUE, "action", 2)

\* C6: when a transition names a state absent from the registry (bare or in a
\* pair), process() does not raise: the machine goes to Exit, runs no further
\* action and returns the result of the action whose transition named it.
UnknownNameExits ==
    \A f \in Frames :
        (f.next_state_name # NoName /\ f.next_state_name \notin f.states) =>
            /\ f.state = "Exit"
            /\ f.pc \in {"loop", "returned"}
            /\ f.caught = NoExc
            /\ f.exc = NoExc
            /\ f.previous_result = f.result
            /\ (f.pc = "returned" => f.ret = f.result)

UnknownNameExitsWitness ==
    /\ stack # <<>>
    /\ Top.pc = "returned"
    /\ Top.next_state_name = Unknown
    /\ Top.extra_args = {"k"}
    /\ Top.ret = 2

\* C7: whenever the engine substitutes Exit for a next-state name absent from
\* the registry, it logs a warning.
SubstitutionLogsWarning ==
    \A f \in Frames :
        (f.next_state_name # NoName /\ f.next_state_name \notin f.states \cup {"Exit"}) =>
            \E i \in DOMAIN log : log[i].level = "WARNING"

\* C8: a transition result that is neither a name nor a pair raises a
\* wrong-shape error that propagates out of process().
WrongShapeRaises ==
    \A f \in Frames :
        f.caught.src = "shape" => (f.pc = "raised" /\ f.exc = f.caught)

\* C9: constructing a machine with an initial-state name absent from the
\* registry raises at construction time; no machine with an undefined current
\* state exists.
UnknownInitialRejected ==
    /\ (args.called /\ args.initial \notin args.states) =>
          (stack = <<>> /\ outcome = [kind |-> "raised", value |-> None, exc |-> InitError(1)])
    /\ \A f \in Frames : f.state # NoState /\ f.state \in f.states \cup {"Exit"}

UnknownInitialRejectedWitness ==
    /\ args.called
    /\ args.initial = Unknown
    /\ stack = <<>>
    /\ outcome.kind = "raised"
    /\ outcome.exc = InitError(1)

\* C10: constructing a machine from a registry without an "Exit" entry is
\* rejected at construction time: every constructed machine's registry holds it.
RegistryHasExit ==
    /\ (args.called /\ "Exit" \notin args.states) => (stack = <<>> /\ outcome.kind = "raised")
    /\ \A f \in Frames : "Exit" \in f.states

---------------------------------------------------------------------------
(* Properties of the retrying invoker *)

AllEmpty(replies) == \A k \in DOMAIN replies : replies[k] = "empty"

\* C11: when the provider answers N >= 1 consecutive calls with empty content
\* and max_retries = N, reliable_parse issues exactly N calls, then returns
\* None, and never raises (either provider variant).
EmptyRepliesGiveSentinel ==
    /\ inv.calls = Len(inv.replies)
    /\ (inv.replies # <<>> /\ AllEmpty(inv.replies)) =>
          /\ inv.pc # "raised"
          /\ inv.calls <= inv.max_retries
          /\ inv.retries = inv.calls
          /\ (inv.pc = "returned" => (inv.response = 0 /\ inv.calls = inv.max_retries))

EmptyRepliesGiveSentinelWitness ==
    /\ inv.provider = "azure"
    /\ inv.max_retries = 3
    /\ inv.replies = <<"empty", "empty", "empty">>
    /\ inv.pc = "returned"
    /\ inv.response = 0
    /\ inv.calls = 3

CallErrorByProvider ==
    \A k \in DOMAIN inv.replies :
        inv.replies[k] \in {"raise", "fatal"} =>
            IF inv.provider = "openrouter"
            THEN /\ inv.pc # "raised"
                 /\ inv.retries >= k
                 /\ ((inv.pc = "returned" /\ inv.response = 0) =>
                        (inv.retries = inv.max_retries /\ inv.calls = inv.max_retries))
            ELSE /\ k = Len(inv.replies)
                 /\ inv.pc = "raised"
                 /\ inv.exc.src = "call"
                 /\ inv.calls = k

CallErrorByProviderWitness ==
    /\ inv.provider = "openrouter"
    /\ inv.max_retries = 2
    /\ inv.replies = <<"raise", "raise">>
    /\ inv.pc = "returned"
    /\ inv.response = 0

---------------------------------------------------------------------------
(* Properties of chat actions and of the sub-machine composer *)

\* C14: when reliable_parse returns None to a chat action, the action
\* completes without raising (and its transition is invoked on the result).
SentinelIsAValue ==
    \A f \in Frames : f.caught.src # "sentinel"

\* the child's process() has returned and the composer is about to go on
Returning == Len(stack) >= 2 /\ Top.pc = "returned"

\* the parent before the composer goes on, and after
ParentBefore == stack[Len(stack) - 1]
ParentAfter == stack'[Len(stack) - 1]

\* C15: after a sub-machine call returns, the parent's token counters are its
\* previous values plus the child's and its message log is its previous log
\* followed by the child's messages (child 5/7/[a,b] into parent 2/3/[x] gives
\* 7/10/[x,a,b]).
MergeAddsAccounts ==
    [][Returning =>
         /\ Len(stack') = Len(stack) - 1
         /\ ParentAfter.total_input_tokens =
                ParentBefore.total_input_tokens + Top.total_input_tokens
         /\ ParentAfter.total_output_tokens =
                ParentBefore.total_output_tokens + Top.total_output_tokens
         /\ ParentAfter.messages = ParentBefore.messages \o Top.messages
         /\ (/\ ParentBefore.total_input_tokens = 2
             /\ ParentBefore.total_output_tokens = 3
             /\ ParentBefore.messages = <<Msg("user", 1, 1)>>
             /\ Top.total_input_tokens = 5
             /\ Top.total_output_tokens = 7
             /\ Top.messages = <<Msg("user", 2, 3), Msg("assistant", 2, 3)>>
             => /\ ParentAfter.total_input_tokens = 7
                /\ ParentAfter.total_output_tokens = 10
                /\ ParentAfter.messages =
                      <<Msg("user", 1, 1), Msg("user", 2, 3), Msg("assistant", 2, 3)>>)]_vars

MergeAddsAccountsWitness ==
    /\ Len(stack) = 1
    /\ Top.pc = "transition"
    /\ Top.total_input_tokens = 7
    /\ Top.total_output_tokens = 10
    /\ Top.messages = <<Msg("user", 1, 1), Msg("user", 2, 3), Msg("assistant", 2, 3)>>

\* C16: the merge also appends the child's result log to the parent's, in
\* order: every record of the child's result log is in the parent's after the
\* call.
MergeAddsResultLog ==
    [][Returning =>
         /\ Len(ParentAfter.analysis_result) >=
                Len(ParentBefore.analysis_result) + Len(Top.analysis_result)
         /\ \A i \in 1..Len(Top.analysis_result) :
                ParentAfter.analysis_result[Len(ParentBefore.analysis_result) + i]
                    = Top.analysis_result[i]]_vars

\* C17: for the save policies 'prompt', 'result' and 'both' a sub-machine call
\* that returns appends exactly one record to the parent's result log (the
\* child's context, the child's result, a pair of both) and returns the child's
\* result to the calling action.
SavePolicyStores ==
    [][(Returning /\ ParentAfter.save_option \in {"prompt", "result", "both"}) =>
         /\ ParentAfter.analysis_result =
                Append(ParentBefore.analysis_result,
                       IF ParentAfter.save_option = "prompt"
                       THEN [shape |-> "context", result |-> Unset]
                       ELSE IF ParentAfter.save_option = "result"
                       THEN [shape |-> "result", result |-> Top.ret]
                       ELSE [shape |-> "pair", result |-> Top.ret])
         /\ ParentAfter.result = Top.ret
         /\ ParentAfter.pc = "transition"
         /\ ParentAfter.caught = NoExc]_vars

SavePolicyStoresWitness ==
    /\ Len(stack) = 1
    /\ Top.pc = "transition"
    /\ Top.save_option = "prompt"
    /\ Top.result = 2
    /\ Top.analysis_result = <<[shape |-> "context", result |-> Unset]>>

\* C18: with the save policy 'none' the composer completes without error,
\* appends nothing to the parent's result log and still merges the child's
\* token counters and messages.
SaveNoneDiscards ==
    [][(Returning /\ ParentAfter.save_option = "none") =>
         /\ ParentAfter.caught = NoExc
         /\ ParentAfter.pc = "transition"
         /\ ParentAfter.result = Top.ret
         /\ ParentAfter.analysis_result = ParentBefore.analysis_result
         /\ ParentAfter.total_input_tokens =
                ParentBefore.total_input_tokens + Top.total_input_tokens
         /\ ParentAfter.total_output_tokens =
                ParentBefore.total_output_tokens + Top.total_output_tokens
         /\ ParentAfter.messages = ParentBefore.messages \o Top.messages]_vars

\* C19: with a save policy outside the defined set the composer raises a
\* contract error; it stores nothing under a default policy and returns no
\* result.
UnknownPolicyRaises ==
    [][(Returning /\ ParentAfter.save_option \notin {"prompt", "result", "both", "none"}) =>
         /\ ParentAfter.caught = SaveError(Len(stack) - 1)
         /\ ParentAfter.analysis_result = ParentBefore.analysis_result
         /\ ParentAfter.result = ParentBefore.result
         /\ ParentAfter.pc # "transition"]_vars

UnknownPolicyRaisesWitness ==
    /\ Len(stack) = 1
    /\ Top.save_option = "bogus"
    /\ Top.caught = SaveError(1)
    /\ Top.analysis_result = <<>>
    /\ Top.total_input_tokens = 7

\* C20: reaching the Exit state never mutates the context or the account,
\* whatever the registry lists under 'Exit' and whatever the prior state: the
\* loop tests for Exit first, invokes no action and no transition, and returns
\* the previous result.
ExitIsInert ==
    [][(Len(stack) >= 1 /\ Top.pc = "loop" /\ Top.state = "Exit") =>
         /\ stack' = WithTop([Top EXCEPT !.pc = "returned",
                                         !.ret = Top.previous_result])
         /\ stack'[Len(stack)].analysis_result = Top.analysis_result
         /\ stack'[Len(stack)].messages = Top.messages
         /\ stack'[Len(stack)].total_input_tokens = Top.total_input_tokens
         /\ stack'[Len(stack)].total_output_tokens = Top.total_output_tokens
         /\ stack'[Len(stack)].hist = Top.hist
         /\ log' = log
         /\ outcome' = outcome]_vars

ExitIsInertWitness ==
    /\ Len(stack) = 1
    /\ Top.pc = "returned"
    /\ Top.state = "Exit"
    /\ "Exit" \in Top.states
    /\ Top.ret = Parsed
    /\ Len(Top.messages) = 2
    /\ Len(Top.analysis_result) = 1
    /\ Len(Top.hist) = 1

---------------------------------------------------------------------------
(* Properties of the argument bag and of the dispatch *)

\* C21: an argument bag returned by the transition of one step is visible to
\* at most the action of the immediately following step: when an action is
\* about to be invoked with a non-empty bag, that bag was returned by the
\* transition of the step just completed.
BagLastsOneStep ==
    \A f \in Frames :
        (f.pc = "loop" /\ f.extra_args # EmptyBag) =>
            (Len(f.hist) >= 1 /\ f.bag_from = Len(f.hist))

\* the action of step 2 ignored the bag of step 1; its transition is next
BagLastsOneStepWitness ==
    /\ Len(stack) = 1
    /\ Top.pc = "transition"
    /\ Len(Top.hist) = 2
    /\ Top.extra_args = {"k"}
    /\ Top.bag_from = 1

\* C22: the calling convention depends only on the action's declared
\* parameter list, and the dispatch itself never makes the call fail.
DispatchNeverFails ==
    \A f \in Frames : f.caught.src # "dispatch"

---------------------------------------------------------------------------
(* Properties of the current state and of the order of execution *)

\* C26: in every reachable state of a constructed machine the current state
\* is an entry of the machine's registry or Exit/None; when it is Exit or None
\* the loop terminates without invoking any action.
StateIsRegisteredOrExit ==
    [][/\ \A i \in 1..Len(stack') :
              stack'[i].state \in stack'[i].states \cup {"Exit", NoState}
       /\ (Len(stack) >= 1 /\ Top.pc = "loop" /\ IsExit(Top.state)) =>
              /\ Len(stack') = Len(stack)
              /\ stack'[Len(stack)].pc = "returned"
              /\ stack'[Len(stack)].hist = Top.hist
              /\ stack'[Len(stack)].result = Top.result
              /\ steps' = steps]_vars

\* a name outside a registry without an "Exit" entry ended the loop
StateIsRegisteredOrExitWitness ==
    /\ Len(stack) = 1
    /\ Top.states = {"A", "B"}
    /\ Top.next_state_name = Unknown
    /\ Top.state = "Exit"
    /\ Top.pc = "returned"
    /\ Len(Top.hist) = 2

\* C28: for every machine, states execute in the order the transition chain
\* dictates, one at a time: an action runs only at the loop head, in the state
\* the last transition named (the initial state at first), and its transition
\* completes before the next action starts, so the record of results is in
\* execution order (A returning 1 then B returning 2 gives [1, 2]).
RunsInChainOrder ==
    [][\A i \in 1..Len(stack) :
          i <= Len(stack') =>
            /\ (stack'[i].hist # stack[i].hist =>
                  /\ stack[i].pc \in {"loop", "sub"}
                  /\ stack'[i].pc = "transition"
                  /\ stack'[i].hist =
                        Append(stack[i].hist,
                               [state |-> stack[i].state, result |-> stack'[i].result])
                  /\ (stack[i].hist # <<>> =>
                        stack[i].state = Lookup(stack[i].states, stack[i].next_state_name))
                  /\ ((stack[i].hist = <<>> /\ i = 1) => stack[i].state = args.initial))
            /\ ((stack[i].pc = "transition" /\ stack'[i].pc = "loop") =>
                  /\ stack'[i].hist = stack[i].hist
                  /\ stack'[i].state = Lookup(stack[i].states, stack'[i].next_state_name)
                  /\ stack'[i].previous_result = stack[i].result)
            /\ ((stack[i].pc = "transition" /\ stack'[i].pc # "transition") =>
                  stack'[i].hist = stack[i].hist)]_vars

RunsInChainOrderWitness ==
    /\ Len(stack) = 1
    /\ args.initial = "A"
    /\ Top.pc = "loop"
    /\ Top.state = "A"
    /\ Top.next_state_name = "A"
    /\ Top.hist = <<[state |-> "A", result |-> 1], [state |-> "B", result |-> 2]>>

---------------------------------------------------------------------------
(* Properties of the account: logs, counters, merges *)

IsPrefix(a, b) == Len(a) <= Len(b) /\ SubSeq(b, 1, Len(a)) = a

\* the messages of a log that machines of the run produced come in the order
\* of production, a request before its reply
InOrder(messages) ==
    \A i, j \in 1..Len(messages) :
        (i < j /\ messages[i].by > 0 /\ messages[j].by > 0) =>
            /\ messages[i].at <= messages[j].at
            /\ (messages[i].at = messages[j].at /\ messages[i].by = messages[j].by
                    => ~(messages[i].role = "assistant" /\ messages[j].role = "user"))

\* C23: the message log keeps chronological order across merges, for any
\* nesting depth: the messages a parent produced before delegating precede the
\* child's, and those it produces afterwards follow them.
LogKeepsOrder ==
    \A f \in Frames : InOrder(f.messages)

\* the outermost log holds a message of before the delegation, the child's
\* messages and a message of after the delegation
LogKeepsOrderWitness ==
    /\ Len(stack) = 1
    /\ Len(Top.messages) = 6
    /\ Top.messages[1] = Msg("user", 1, 0)
    /\ Top.messages[3] = Msg("user", 2, 1)
    /\ Top.messages[5] = Msg("user", 1, 2)

\* C24: a machine's message log and result log are append-only: across every
\* step the log before it is a prefix of the log after it.
LogsAppendOnly ==
    [][\A i \in 1..Len(stack) :
          i <= Len(stack') =>
            /\ IsPrefix(stack[i].messages, stack'[i].messages)
            /\ IsPrefix(stack[i].analysis_result, stack'[i].analysis_result)]_vars

\* C25: the token counters of every machine never decrease over any sequence
\* of steps and merges.
TokensNeverDecrease ==
    [][\A i \in 1..Len(stack) :
          i <= Len(stack') =>
            /\ stack'[i].total_input_tokens >= stack[i].total_input_tokens
            /\ stack'[i].total_output_tokens >= stack[i].total_output_tokens]_vars

\* the outermost machine after the merge of a child that had merged its own
TokensNeverDecreaseWitness ==
    /\ Len(stack) = 1
    /\ Top.total_input_tokens = 4
    /\ Top.total_output_tokens = 6

\* the account of a machine
Account(f) ==
    <<f.messages, f.total_input_tokens, f.total_output_tokens>>

\* C27: for every sub-machine call that returns, the child's account is merged
\* into the parent's exactly once, when the child's process() has returned and
\* before the parent's transition is invoked: the parent's account does not
\* change while the child runs, gains the child's account once in the step
\* that returns from the call, and is left alone by the transition.
MergedOnceOnReturn ==
    [][/\ Returning =>
            /\ ParentBefore.pc = "sub"
            /\ ParentAfter.pc \in {"transition", "returned"}
            /\ Account(ParentAfter) =
                  <<ParentBefore.messages \o Top.messages,
                    ParentBefore.total_input_tokens + Top.total_input_tokens,
                    ParentBefore.total_output_tokens + Top.total_output_tokens>>
       /\ \A i \in 1..Len(stack) :
            (i <= Len(stack') /\ ~(Returning /\ i = Len(stack) - 1)) =>
                (stack[i].pc \in {"sub", "transition"} =>
                    Account(stack'[i]) = Account(stack[i]))]_vars

MergedOnceOnReturnWitness ==
    /\ Len(stack) = 1
    /\ Top.pc = "transition"
    /\ Top.save_option = "result"
    /\ Top.total_input_tokens = 4
    /\ Len(Top.messages) = 6
    /\ Top.messages[3].by = 2
    /\ Top.messages[5].by = 3

\* a machine has just been built by the sub-machine composer
Built == Len(stack') = Len(stack) + 1 /\ Len(stack) >= 1

\* C30: every child machine built by the sub-machine composer starts with a
\* fresh account whatever context it is given: an empty message log, an empty
\* result log and zero token counters.
ChildStartsFresh ==
    [][Built =>
         /\ stack'[Len(stack')].messages = <<>>
         /\ stack'[Len(stack')].analysis_result = <<>>
         /\ stack'[Len(stack')].total_input_tokens = 0
         /\ stack'[Len(stack')].total_output_tokens = 0]_vars

\* C30 as amended: the child starts with an empty result log, zero token
\* counters and the message log of the context it is given.
ChildStartsFromContext ==
    [][Built =>
         /\ stack'[Len(stack')].messages = stack'[Len(stack')].context
         /\ stack'[Len(stack')].analysis_result = <<>>
         /\ stack'[Len(stack')].total_input_tokens = 0
         /\ stack'[Len(stack')].total_output_tokens = 0
         /\ stack'[Len(stack')].pc = "loop"
         /\ stack'[Len(stack')].hist = <<>>]_vars

ChildStartsFromContextWitness ==
    /\ Len(stack) = 2
    /\ stack[1] = Delegating(1)
    /\ Top.pc = "loop"
    /\ Top.hist = <<>>
    /\ Top.context = <<Msg("user", 0, 0)>>
    /\ Top.messages = <<Msg("user", 0, 0)>>

---------------------------------------------------------------------------
(* Termination *)

\* the outermost loop stands at Exit, or one of its steps has raised
Decided ==
    /\ Len(stack) = 1
    /\ \/ Top.pc = "loop" /\ Top.state = "Exit"
       \/ Top.caught # NoExc

\* the outermost process() has been left
Terminated == stack = <<>> /\ outcome.kind \in {"returned", "raised"}

\* C29: for every registry in which Exit is reachable from the initial state,
\* process() terminates and returns a non-error result: it is never left by an
\* exception.
ReturnsWhenExitReachable ==
    (args.called /\ "Exit" \in args.states /\ args.initial \in args.states)
        => outcome.kind # "raised"

\* C29 as amended: once the transition chain has reached Exit or a step has
\* raised, process() terminates; it returns normally unless the usage-limit
\* error was raised, which leaves process().
TerminatesOnceDecided ==
    /\ Decided ~> Terminated
    /\ [](outcome.kind = "raised" => (IsFatal(outcome.exc) \/ outcome.exc = InitError(1)))

TerminatesOnceDecidedWitness ==
    /\ Terminated
    /\ outcome.kind = "returned"
    /\ outcome.value = 2
    /\ "Exit" \in args.states
    /\ args.initial = "A"

\* the machine on top was stopped by an exception that is not the usage limit
StoppedChild ==
    Len(stack) >= 2 /\ Top.caught # NoExc /\ ~IsFatal(Top.caught)

\* C31: a non-fatal exception raised inside a child machine's action or
\* transition terminates only the child's loop: the child's process() returns
\* (None) to the composer and no machine below it is touched by the failing
\* step; the composer then merges the child's partial account into the
\* parent's, and with a save policy it accepts the parent goes on to its own
\* transition with the child's result.
ChildErrorStaysInChild ==
    [][/\ (Len(stack) >= 2 /\ Len(stack') = Len(stack)
            /\ Top.caught = NoExc /\ stack'[Len(stack)].caught # NoExc
            /\ ~IsFatal(stack'[Len(stack)].caught)) =>
                /\ stack'[Len(stack)].pc = "returned"
                /\ stack'[Len(stack)].ret = None
                /\ SubSeq(stack', 1, Len(stack) - 1) = SubSeq(stack, 1, Len(stack) - 1)
       /\ StoppedChild =>
                /\ Returning
                /\ Len(stack') = Len(stack) - 1
                /\ Account(ParentAfter) =
                      <<ParentBefore.messages \o Top.messages,
                        ParentBefore.total_input_tokens + Top.total_input_tokens,
                        ParentBefore.total_output_tokens + Top.total_output_tokens>>
                /\ SaveOptionValid(ParentAfter.save_option) =>
                      /\ ParentAfter.pc = "transition"
                      /\ ParentAfter.caught = NoExc
                      /\ ParentAfter.result = None]_vars

\* the parent of a child whose chat action failed after its user prompt: the
\* prompt is in the parent's log and the parent then ran its transition and
\* entered its next state
ChildErrorStaysInChildWitness ==
    /\ Len(stack) = 1
    /\ Top.pc = "loop"
    /\ Top.caught = NoExc
    /\ Top.save_option = "result"
    /\ Top.state = "B"
    /\ Len(Top.messages) = 3
    /\ Top.messages[3].role = "user"
    /\ Top.messages[3].by = 2
    /\ Top.analysis_result[Len(Top.analysis_result)] = SaveRecord("result", None)
    /\ Len(Top.hist) = 2

\* C32: a usage-limit error raised by the external call is never swallowed by
\* the invoker: with either provider, a call that raised it leaves
\* reliable_parse by that exception, and is not counted as a failed attempt
\* that ends in another call or in the None result.
FatalLeavesInvoker ==
    \A k \in DOMAIN inv.replies :
        inv.replies[k] = "fatal" =>
            /\ inv.pc = "raised"
            /\ IsFatal(inv.exc)
            /\ Len(inv.replies) = k
            /\ inv.retries = k - 1

\* C39: when the composer rejects an invalid save policy it does so before
\* doing any work: the child has executed no state, and the parent's message
\* log, result log and token counters are as they were before the call.
RejectsBeforeWork ==
    [][(Returning /\ ~SaveOptionValid(ParentAfter.save_option)) =>
            /\ Top.hist = <<>>
            /\ Account(ParentAfter) = Account(ParentBefore)
            /\ ParentAfter.analysis_result = ParentBefore.analysis_result]_vars

\* C40: a chat action that fails after appending its user prompt leaves the
\* message log and the result log as they were before the action: in every
\* reachable state each user message of a machine's log is followed by the
\* assistant reply of the same action.
PromptHasReply ==
    \A f \in Frames :
        \A k \in DOMAIN f.messages :
            f.messages[k].role = "user" =>
                /\ k < Len(f.messages)
                /\ f.messages[k + 1].role = "assistant"
                /\ f.messages[k + 1].at = f.messages[k].at

\* C33: when a machine is built from a registry whose 'Exit' entry carries an
\* action, reaching Exit executes that action and process() returns its value:
\* the modification machine that reached Exit has set modified_ql_path, so
\* after the ModifyQuery state current_ql_path is the modified-query path of
\* the current iteration, and the iteration-control machine that reached Exit
\* returns its final report.
ExitActionTakesEffect ==
    /\ (IterationRuns("ExecuteQuery") /\ iteration.sub_result # "None") =>
          /\ iteration.sub_result = "output_path"
          /\ iteration.modified_ql_path = ModifiedPath(iteration.current_iteration)
          /\ iteration.current_ql_path = ModifiedPath(iteration.current_iteration)
    /\ (iteration.pc = "returned" /\ iteration.state = "Exit") =>
          iteration.ret = "final_report"

\* the number of entries of a sequence that are x
RECURSIVE Count(_, _)
Count(seq, x) ==
    IF seq = <<>> THEN 0
    ELSE (IF seq[Len(seq)] = x THEN 1 ELSE 0) + Count(SubSeq(seq, 1, Len(seq) - 1), x)

\* C34: the ModifyQuery -> ExecuteQuery -> ValidateOutput cycle is executed at
\* most max_iterations times: current_iteration starts at 1, changes only by
\* +1, never exceeds max_iterations + 1, and iteration_history never holds
\* more than max_iterations records (none when max_iterations is 0).
IterationsBounded ==
    [][/\ iteration.pc = "idle" => iteration'.current_iteration = 1
       /\ iteration.pc # "idle" =>
             /\ iteration'.current_iteration \in
                   {iteration.current_iteration, iteration.current_iteration + 1}
             /\ iteration'.max_iterations = iteration.max_iterations
       /\ iteration'.current_iteration >= 1
       /\ iteration'.current_iteration <= iteration'.max_iterations + 1
       /\ Len(iteration'.iteration_history) <= iteration'.max_iterations
       /\ \A st \in {"ModifyQuery", "ExecuteQuery", "ValidateOutput"} :
             Count(iteration'.executed, st) <= iteration'.max_iterations]_vars

\* a run that used up its two iterations
IterationsBoundedWitness ==
    /\ iteration.pc = "returned"
    /\ iteration.max_iterations = 2
    /\ iteration.current_iteration = 3
    /\ Len(iteration.iteration_history) = 2
    /\ Count(iteration.executed, "ModifyQuery") = 2
    /\ Count(iteration.executed, "ValidateOutput") = 2
    /\ iteration.stop_reason = "Reached maximum iterations"

\* the validation says: go on
GoesOn(v) ==
    v.kind = "conclusion" /\ v.continue_iteration /\ v.result_category # "success_increase"

\* C35: the machine goes on to another iteration only if the last validation
\* has continue_iteration true and a result_category other than
\* success_increase; in every other case (success, continue flag false,
\* missing or empty validation) UpdateIterationState routes to
\* GenerateFinalReport; and whenever GenerateFinalReport is entered stop_reason
\* has been set to a non-empty value.
StopsUnlessToldToGoOn ==
    [][/\ (IterationRuns("UpdateIterationState") /\ iteration' # iteration) =>
             /\ iteration'.pc = "loop"
             /\ IF GoesOn(iteration.last_validation)
                THEN /\ iteration'.state = "CheckIterationLimit"
                     /\ iteration'.current_iteration = iteration.current_iteration + 1
                ELSE /\ iteration'.state = "GenerateFinalReport"
                     /\ iteration'.current_iteration = iteration.current_iteration
       /\ iteration'.current_iteration > iteration.current_iteration =>
             GoesOn(iteration.last_validation)
       /\ iteration'.state = "GenerateFinalReport" =>
             iteration'.stop_reason \notin {NoReason, ""}
       /\ "GenerateFinalReport" \in Range(iteration'.executed) =>
             iteration'.stop_reason \notin {NoReason, ""}]_vars

\* the validation machine left an empty conclusion behind and the report is
\* the next state
StopsUnlessToldToGoOnWitness ==
    /\ IterationRuns("GenerateFinalReport")
    /\ iteration.last_validation = EmptyConclusion
    /\ iteration.stop_reason = "Validation recommends stopping"
    /\ Len(iteration.iteration_history) = 1

\* C38 as stated: every run of the iteration-control machine whose process()
\* returns has executed GenerateFinalReport exactly once, as the last state
\* before Exit, so final_report is set.
ReportAlwaysGenerated ==
    iteration.pc = "returned" =>
        /\ Count(iteration.executed, "GenerateFinalReport") = 1
        /\ iteration.executed[Len(iteration.executed)] = "GenerateFinalReport"
        /\ iteration.final_report # "None"

\* C38, amended: no run executes GenerateFinalReport more than once or any
\* state after it; a run whose process() returns without an action having
\* raised has executed it exactly once, as the last state before Exit, and
\* final_report is set; a run stopped by a non-fatal exception of an action
\* returns None with GenerateFinalReport not executed and final_report unset.
ReportGeneratedUnlessStopped ==
    /\ Count(iteration.executed, "GenerateFinalReport") <= 1
    /\ "GenerateFinalReport" \in Range(iteration.executed) =>
          /\ iteration.executed[Len(iteration.executed)] = "GenerateFinalReport"
          /\ iteration.final_report # "None"
          /\ iteration.state = "Exit"
    /\ (iteration.pc = "returned" /\ iteration.caught = NoExc) =>
          /\ iteration.state = "Exit"
          /\ Count(iteration.executed, "GenerateFinalReport") = 1
          /\ iteration.final_report # "None"
    /\ (iteration.pc = "returned" /\ iteration.caught # NoExc) =>
          /\ iteration.ret = "None"
          /\ "GenerateFinalReport" \notin Range(iteration.executed)
          /\ iteration.final_report = "None"

\* a run of one iteration that ended with its report
ReportGeneratedUnlessStoppedWitness ==
    /\ iteration.pc = "returned"
    /\ iteration.caught = NoExc
    /\ iteration.final_report = "report"
    /\ Len(iteration.iteration_history) = 1
    /\ iteration.executed[Len(iteration.executed)] = "GenerateFinalReport"

\* C36: in specific-CWE mode the root pipeline always terminates: for every
\* value of specific_cwe, including one that is absent from the list of common
\* CWEs, the machine processes that CWE at most once before it reaches
\* GenerateSummary and Exit: ProcessCWEQLFiles is executed at most once and
\* SelectNextCWE at most twice.
SpecificModeProcessesOnce ==
    (pipeline.pc # "idle" /\ ~pipeline.process_all_cwes) =>
        /\ Count(pipeline.executed, "ProcessCWEQLFiles") <= 1
        /\ Count(pipeline.executed, "SelectNextCWE") <= 2

\* a process-all run without a query filter
AllNoFilter ==
    pipeline.pc # "idle" /\ pipeline.process_all_cwes /\ ~pipeline.specific_query

====
